---- MODULE Spec2Model ----
(***************************************************************************)
(* A model of src/prices.py: the four call-through functions               *)
(* get_current_price, get_historical_prices, get_stock_info and            *)
(* get_multiple_stocks, and the script under `if __name__ == "__main__"`.  *)
(*                                                                         *)
(* The program is sequential.  pc is the statement about to run, stack the *)
(* return addresses of the calls in progress.  The market-data provider    *)
(* (yfinance) is the environment: a request is issued by the program, and  *)
(* the provider then either answers with any table (or info bag) or        *)
(* raises.  No function of the program catches an exception.               *)
(***************************************************************************)
EXTENDS Integers, Sequences, FiniteSets

VARIABLES
    pc,          \* the statement about to run
    stack,       \* return addresses, innermost first
    ticker,      \* parameter `ticker` of the innermost leaf function
    period,      \* parameter `period` of get_historical_prices
    data,        \* get_current_price's `data` / get_historical_prices' `historical_data`
    info,        \* get_stock_info's `info`
    ret,         \* the value a function hands back, until its caller takes it
    tickers,     \* parameter `tickers` of get_multiple_stocks
    idx,         \* how many elements of `tickers` the for loop has taken
    prices,      \* get_multiple_stocks' `prices`
    current_price, \* the script's `current_price`
    multiple_prices, \* the script's `multiple_prices`
    stdout,      \* the lines the script printed since the last banner
    requests,    \* history: every request sent to the provider, in order
    fetched,     \* history: every value get_current_price computed, in order
    mark         \* history: lengths of requests and fetched when the batch began

vars == <<pc, stack, ticker, period, data, info, ret, tickers, idx, prices,
          current_price, multiple_prices, stdout, requests, fetched, mark>>

-----------------------------------------------------------------------------
(* Bounds of the model. *)

\* longest list handed to get_multiple_stocks by a caller other than the script
MaxLen == 3
\* most rows the provider puts in the answer to a '1d' request
MaxDayRows == 2
\* most rows the provider puts in the answer to any other request
MaxRows == 5

\* ticker symbols a caller passes
Symbols == {"AAPL", "GOOGL"}
\* closing prices the provider reports
Closes == {0, 10, 12}
\* values the provider's info bag holds
InfoValues == {"val", "N/A"}

-----------------------------------------------------------------------------
(* Values. *)

\* Optional[float]: None, or a number
None == [has |-> FALSE, val |-> 0]
Some(x) == [has |-> TRUE, val |-> x]

\* bool(x) of an Optional[float]: None and 0 are falsy
Truthy(p) == p.has /\ p.val # 0

NoRet == [kind |-> "none", value |-> <<>>]

\* One record of the provider's table, with the columns the script prints.
Row(c) == [Open |-> c + 1, High |-> c + 2, Low |-> c, Close |-> c, Volume |-> 100]

Rows == {Row(c) : c \in Closes}

SeqsUpTo(S, n) == UNION {[1..k -> S] : k \in 0..n}

\* period tokens of the docstring of get_historical_prices
ValidPeriods == {"1d", "5d", "1mo", "3mo", "6mo", "1y", "2y", "5y", "10y", "ytd", "max"}
\* tokens a caller passes: the valid ones and one the provider does not know
Periods == ValidPeriods \cup {"2w"}
DefaultPeriod == "1mo"

\* the tables the provider may answer a history request with
Tables(p) == SeqsUpTo(Rows, IF p = "1d" THEN MaxDayRows ELSE MaxRows)

\* the provider fields get_stock_info reads, and the provider's own symbol field
InfoFields == {"longName", "currentPrice", "previousClose", "open", "dayHigh",
               "dayLow", "volume", "marketCap", "symbol"}
EmptyBag == [f \in {} |-> ""]
\* the info bags the provider may answer with: any subset of the fields present
InfoBags == UNION {[S -> InfoValues] : S \in SUBSET InfoFields}

HistoryReq(t, p) == [api |-> "history", ticker |-> t, period |-> p]
InfoReq(t) == [api |-> "info", ticker |-> t, period |-> ""]

-----------------------------------------------------------------------------
(* A Python dict: its items in insertion order, keys unique. *)

Keys(d) == {d[i].k : i \in DOMAIN d}
KeySeq(d) == [i \in DOMAIN d |-> d[i].k]
\* d[key]
Lookup(d, key) == d[CHOOSE i \in DOMAIN d : d[i].k = key].v

\* d.setdefault(key, v)
DictSetKeepFirst(d, key, v) ==
    IF key \in Keys(d) THEN d ELSE Append(d, [k |-> key, v |-> v])

\* d[key] = v
DictSet(d, key, v) ==
    IF key \in Keys(d)
    THEN [i \in DOMAIN d |-> IF d[i].k = key THEN [k |-> key, v |-> v] ELSE d[i]]
    ELSE Append(d, [k |-> key, v |-> v])

-----------------------------------------------------------------------------
Init ==
    /\ pc = "idle"
    /\ stack = <<>>
    /\ ticker = ""
    /\ period = ""
    /\ data = <<>>
    /\ info = EmptyBag
    /\ ret = NoRet
    /\ tickers = <<>>
    /\ idx = 0
    /\ prices = <<>>
    /\ current_price = None
    /\ multiple_prices = <<>>
    /\ stdout = <<>>
    /\ requests = <<>>
    /\ fetched = <<>>
    /\ mark = [req |-> 0, fet |-> 0]

-----------------------------------------------------------------------------
(* The provider. *)

\* stock.history(...) answers with a table
ProviderTable ==
    /\ pc \in {"gcp_wait", "ghp_wait"}
    /\ \E s \in Tables(requests[Len(requests)].period) : data' = s
    /\ pc' = IF pc = "gcp_wait" THEN "gcp_19" ELSE "ghp_38"
    /\ UNCHANGED <<stack, ticker, period, info, ret, tickers, idx, prices,
                   current_price, stdout, requests, fetched, mark,
                   multiple_prices>>

\* stock.info answers with a bag of fields
ProviderInfo ==
    /\ pc = "gsi_wait"
    /\ \E b \in InfoBags : info' = b
    /\ pc' = "gsi_53"
    /\ UNCHANGED <<stack, ticker, period, data, ret, tickers, idx, prices,
                   current_price, stdout, requests, fetched, mark,
                   multiple_prices>>

\* the provider call raises (transport failure, unexpected shape, ...)
ProviderRaises ==
    /\ pc \in {"gcp_wait", "ghp_wait", "gsi_wait"}
    /\ pc' = "exc"
    /\ UNCHANGED <<stack, ticker, period, data, info, ret, tickers, idx, prices,
                   current_price, stdout, requests, fetched, mark,
                   multiple_prices>>

\* Propagate, had get_multiple_stocks caught the failure and stored None
PropagateCaughtInBatch ==
    /\ pc = "exc"
    /\ stack # <<>>
    /\ stack' = Tail(stack)
    /\ IF Head(stack) = "gms_78"
       THEN /\ pc' = "gms_78"
            /\ ret' = [kind |-> "price", value |-> None]
       ELSE /\ pc' = "raised"
            /\ ret' = ret
    /\ UNCHANGED <<ticker, period, data, info, tickers, idx, prices,
                   current_price, stdout, requests, fetched, mark,
                   multiple_prices>>

\* No frame has a handler.  The exception leaves the function that made the
\* provider call; where that function was called from get_multiple_stocks
\* (return address "gms_78") it goes on through get_multiple_stocks too; back at
\* the outside caller ("api") or in the script ("main_...") it is the failure
\* of the whole call or run.
Propagate ==
    /\ pc = "exc"
    /\ stack # <<>>
    /\ stack' = Tail(stack)
    /\ pc' = IF Head(stack) = "gms_78" THEN "exc" ELSE "raised"
    /\ UNCHANGED <<ticker, period, data, info, ret, tickers, idx, prices,
                   current_price, stdout, requests, fetched, mark,
                   multiple_prices>>

\* return: control and the value go to the caller, the frame's locals are gone
Return ==
    /\ pc \in {"gcp_ret", "ghp_ret", "gsi_ret", "gms_ret"}
    /\ pc' = IF Head(stack) = "api" THEN "returned" ELSE Head(stack)
    /\ stack' = Tail(stack)
    /\ data' = <<>>
    /\ info' = EmptyBag
    /\ prices' = IF pc = "gms_ret" THEN <<>> ELSE prices
    /\ UNCHANGED <<ticker, period, ret, tickers, idx, current_price, stdout,
                   requests, fetched, mark,
                   multiple_prices>>

-----------------------------------------------------------------------------
(* get_current_price *)

CallGetCurrentPrice ==
    /\ pc = "idle"
    /\ \E t \in Symbols : ticker' = t
    /\ stack' = <<"api">>
    /\ pc' = "gcp_16"
    /\ UNCHANGED <<period, data, info, ret, tickers, idx, prices, current_price,
                   stdout, requests, fetched, mark,
                   multiple_prices>>

\* stock = yf.Ticker(ticker); data = stock.history(period='1d')
GcpRequest ==
    /\ pc = "gcp_16"
    /\ requests' = Append(requests, HistoryReq(ticker, "1d"))
    /\ pc' = "gcp_wait"
    /\ UNCHANGED <<stack, ticker, period, data, info, ret, tickers, idx, prices,
                   current_price, stdout, fetched, mark,
                   multiple_prices>>

\* data['Close'].iloc[0]
FirstClose(d) == d[1].Close

\* data['Close'].iloc[-1]
LastClose(d) == d[Len(d)].Close

\* CurrentPriceOf, had it tested the price's truth value
CurrentPriceFalsy(d) ==
    IF d # <<>> /\ LastClose(d) # 0 THEN Some(LastClose(d)) ELSE None

\* if not data.empty: return data['Close'].iloc[-1]  else: return None
CurrentPriceOf(d) == IF d # <<>> THEN Some(LastClose(d)) ELSE None

GcpResult ==
    /\ pc = "gcp_19"
    /\ ret' = [kind |-> "price", value |-> CurrentPriceOf(data)]
    /\ fetched' = Append(fetched, CurrentPriceOf(data))
    /\ pc' = "gcp_ret"
    /\ UNCHANGED <<stack, ticker, period, data, info, tickers, idx, prices,
                   current_price, stdout, requests, mark,
                   multiple_prices>>

-----------------------------------------------------------------------------
(* get_historical_prices *)

CallGetHistoricalPrices ==
    /\ pc = "idle"
    /\ \E t \in Symbols : ticker' = t
    /\ \E p \in Periods : period' = p
    /\ stack' = <<"api">>
    /\ pc' = "ghp_36"
    /\ UNCHANGED <<data, info, ret, tickers, idx, prices, current_price,
                   stdout, requests, fetched, mark,
                   multiple_prices>>

\* the call that leaves `period` to its default
CallGetHistoricalPricesDefault ==
    /\ pc = "idle"
    /\ \E t \in Symbols : ticker' = t
    /\ period' = DefaultPeriod
    /\ stack' = <<"api">>
    /\ pc' = "ghp_36"
    /\ UNCHANGED <<data, info, ret, tickers, idx, prices, current_price,
                   stdout, requests, fetched, mark,
                   multiple_prices>>

\* GhpRequest, had it replaced an unknown token by the default
GhpRequestValidated ==
    /\ pc = "ghp_36"
    /\ requests' = Append(requests,
          HistoryReq(ticker, IF period \in ValidPeriods THEN period ELSE DefaultPeriod))
    /\ pc' = "ghp_wait"
    /\ UNCHANGED <<stack, ticker, period, data, info, ret, tickers, idx, prices,
                   current_price, stdout, fetched, mark,
                   multiple_prices>>

\* stock = yf.Ticker(ticker); historical_data = stock.history(period=period)
GhpRequest ==
    /\ pc = "ghp_36"
    /\ requests' = Append(requests, HistoryReq(ticker, period))
    /\ pc' = "ghp_wait"
    /\ UNCHANGED <<stack, ticker, period, data, info, ret, tickers, idx, prices,
                   current_price, stdout, fetched, mark,
                   multiple_prices>>

\* return historical_data
GhpResult ==
    /\ pc = "ghp_38"
    /\ ret' = [kind |-> "table", value |-> data]
    /\ pc' = "ghp_ret"
    /\ UNCHANGED <<stack, ticker, period, data, info, tickers, idx, prices,
                   current_price, stdout, requests, fetched, mark,
                   multiple_prices>>

-----------------------------------------------------------------------------
(* get_stock_info *)

CallGetStockInfo ==
    /\ pc = "idle"
    /\ \E t \in Symbols : ticker' = t
    /\ stack' = <<"api">>
    /\ pc' = "gsi_50"
    /\ UNCHANGED <<period, data, info, ret, tickers, idx, prices, current_price,
                   stdout, requests, fetched, mark,
                   multiple_prices>>

\* stock = yf.Ticker(ticker); info = stock.info
GsiRequest ==
    /\ pc = "gsi_50"
    /\ requests' = Append(requests, InfoReq(ticker))
    /\ pc' = "gsi_wait"
    /\ UNCHANGED <<stack, ticker, period, data, info, ret, tickers, idx, prices,
                   current_price, stdout, fetched, mark,
                   multiple_prices>>

\* info.get(field, 'N/A')
InfoGet(bag, field) == IF field \in DOMAIN bag THEN bag[field] ELSE "N/A"

\* StockInfo, had 'Symbol' been read from the provider's bag
StockInfoProviderSymbol(t, bag) ==
    << [k |-> "Symbol",         v |-> InfoGet(bag, "symbol")],
       [k |-> "Company Name",   v |-> InfoGet(bag, "longName")],
       [k |-> "Current Price",  v |-> InfoGet(bag, "currentPrice")],
       [k |-> "Previous Close", v |-> InfoGet(bag, "previousClose")],
       [k |-> "Open",           v |-> InfoGet(bag, "open")],
       [k |-> "Day High",       v |-> InfoGet(bag, "dayHigh")],
       [k |-> "Day Low",        v |-> InfoGet(bag, "dayLow")],
       [k |-> "Volume",         v |-> InfoGet(bag, "volume")],
       [k |-> "Market Cap",     v |-> InfoGet(bag, "marketCap")] >>

\* the dict literal of lines 53-63, in its order
StockInfo(t, bag) ==
    << [k |-> "Symbol",         v |-> t],
       [k |-> "Company Name",   v |-> InfoGet(bag, "longName")],
       [k |-> "Current Price",  v |-> InfoGet(bag, "currentPrice")],
       [k |-> "Previous Close", v |-> InfoGet(bag, "previousClose")],
       [k |-> "Open",           v |-> InfoGet(bag, "open")],
       [k |-> "Day High",       v |-> InfoGet(bag, "dayHigh")],
       [k |-> "Day Low",        v |-> InfoGet(bag, "dayLow")],
       [k |-> "Volume",         v |-> InfoGet(bag, "volume")],
       [k |-> "Market Cap",     v |-> InfoGet(bag, "marketCap")] >>

GsiResult ==
    /\ pc = "gsi_53"
    /\ ret' = [kind |-> "info", value |-> StockInfo(ticker, info)]
    /\ pc' = "gsi_ret"
    /\ UNCHANGED <<stack, ticker, period, data, info, tickers, idx, prices,
                   current_price, stdout, requests, fetched, mark,
                   multiple_prices>>

-----------------------------------------------------------------------------
(* get_multiple_stocks *)

CallGetMultipleStocks ==
    /\ pc = "idle"
    /\ \E ts \in SeqsUpTo(Symbols, MaxLen) : tickers' = ts
    /\ stack' = <<"api">>
    /\ pc' = "gms_75"
    /\ UNCHANGED <<ticker, period, data, info, ret, idx, prices, current_price,
                   stdout, requests, fetched, mark,
                   multiple_prices>>

\* prices = {}
GmsInit ==
    /\ pc = "gms_75"
    /\ prices' = <<>>
    /\ idx' = 0
    /\ mark' = [req |-> Len(requests), fet |-> Len(fetched)]
    /\ pc' = "gms_76"
    /\ UNCHANGED <<stack, ticker, period, data, info, ret, tickers,
                   current_price, stdout, requests, fetched,
                   multiple_prices>>

\* GmsLoop, had it passed over a symbol that already has a price
GmsLoopSkipSeen ==
    /\ pc = "gms_76"
    /\ IF idx < Len(tickers)
       THEN /\ idx' = idx + 1
            /\ IF tickers[idx + 1] \in Keys(prices)
               THEN /\ pc' = "gms_76"
                    /\ UNCHANGED <<ticker, stack>>
               ELSE /\ ticker' = tickers[idx + 1]
                    /\ stack' = <<"gms_78">> \o stack
                    /\ pc' = "gcp_16"
       ELSE /\ pc' = "gms_79"
            /\ UNCHANGED <<idx, ticker, stack>>
    /\ UNCHANGED <<period, data, info, ret, tickers, prices, current_price,
                   stdout, requests, fetched, mark,
                   multiple_prices>>

\* for ticker in tickers: price = get_current_price(ticker)
GmsLoop ==
    /\ pc = "gms_76"
    /\ IF idx < Len(tickers)
       THEN /\ idx' = idx + 1
            /\ ticker' = tickers[idx + 1]
            /\ stack' = <<"gms_78">> \o stack
            /\ pc' = "gcp_16"
       ELSE /\ pc' = "gms_79"
            /\ UNCHANGED <<idx, ticker, stack>>
    /\ UNCHANGED <<period, data, info, ret, tickers, prices, current_price,
                   stdout, requests, fetched, mark,
                   multiple_prices>>

\* GmsStore, had it left out a symbol with no price
GmsStoreSkipAbsent ==
    /\ pc = "gms_78"
    /\ prices' = IF ret.value.has THEN DictSet(prices, tickers[idx], ret.value)
                 ELSE prices
    /\ pc' = "gms_76"
    /\ ret' = NoRet
    /\ UNCHANGED <<stack, ticker, period, data, info, tickers, idx,
                   current_price, stdout, requests, fetched, mark,
                   multiple_prices>>

\* prices[ticker] = price
GmsStore ==
    /\ pc = "gms_78"
    /\ prices' = DictSet(prices, tickers[idx], ret.value)
    /\ pc' = "gms_76"
    /\ ret' = NoRet
    /\ UNCHANGED <<stack, ticker, period, data, info, tickers, idx,
                   current_price, stdout, requests, fetched, mark,
                   multiple_prices>>

\* GmsResult, had it ended in `return prices or None`
GmsResultOrNone ==
    /\ pc = "gms_79"
    /\ ret' = IF prices = <<>> THEN [kind |-> "price", value |-> None]
              ELSE [kind |-> "prices", value |-> prices]
    /\ pc' = "gms_ret"
    /\ UNCHANGED <<stack, ticker, period, data, info, tickers, idx, prices,
                   current_price, stdout, requests, fetched, mark,
                   multiple_prices>>

\* return prices
GmsResult ==
    /\ pc = "gms_79"
    /\ ret' = [kind |-> "prices", value |-> prices]
    /\ pc' = "gms_ret"
    /\ UNCHANGED <<stack, ticker, period, data, info, tickers, idx, prices,
                   current_price, stdout, requests, fetched, mark,
                   multiple_prices>>

-----------------------------------------------------------------------------
(* The script. *)

MainTicker == "AAPL"
MainTickers == <<"AAPL", "GOOGL", "MSFT", "TSLA">>
MainPeriod == "5d"

\* a printed line
Banner(title) == [kind |-> "banner", key |-> title, val |-> <<>>]
\* f"{x:.2f}": the whole units and the hundredths
Format2f(x) == <<x, 0>>
\* if price: print(f"...${price:.2f}")  else: print("...Unable to fetch price")
PriceLine(key, p) ==
    IF Truthy(p) THEN [kind |-> "price", key |-> key, val |-> Format2f(p.val)]
    ELSE [kind |-> "unable", key |-> key, val |-> <<>>]
ItemLine(item) == [kind |-> "item", key |-> item.k, val |-> item.v]
\* one row of historical[['Open', 'High', 'Low', 'Close', 'Volume']]
RowLine(r) ==
    [kind |-> "row", key |-> "", val |-> <<r.Open, r.High, r.Low, r.Close, r.Volume>>]

\* lines 84-89: banner, current_price = get_current_price(ticker)
MainPrice ==
    /\ pc = "idle"
    /\ stdout' = <<Banner("Current Price for AAPL")>>
    /\ ticker' = MainTicker
    /\ stack' = <<"main_90">>
    /\ pc' = "gcp_16"
    /\ UNCHANGED <<period, data, info, ret, tickers, idx, prices, current_price,
                   requests, fetched, mark,
                   multiple_prices>>

\* lines 89-93
MainPrintPrice ==
    /\ pc = "main_90"
    /\ current_price' = ret.value
    /\ stdout' = Append(stdout, PriceLine("", ret.value))
    /\ pc' = "main_96"
    /\ ret' = NoRet
    /\ UNCHANGED <<stack, ticker, period, data, info, tickers, idx, prices,
                   requests, fetched, mark,
                   multiple_prices>>

\* lines 96-100: banner, info = get_stock_info(ticker)
MainInfo ==
    /\ pc = "main_96"
    /\ stdout' = <<Banner("Detailed Information for AAPL")>>
    /\ ticker' = MainTicker
    /\ stack' = <<"main_101">>
    /\ pc' = "gsi_50"
    /\ UNCHANGED <<period, data, info, ret, tickers, idx, prices, current_price,
                   requests, fetched, mark,
                   multiple_prices>>

\* lines 100-102
MainPrintInfo ==
    /\ pc = "main_101"
    /\ stdout' = stdout \o [i \in DOMAIN ret.value |-> ItemLine(ret.value[i])]
    /\ pc' = "main_105"
    /\ ret' = NoRet
    /\ UNCHANGED <<stack, ticker, period, data, info, tickers, idx, prices,
                   current_price, requests, fetched, mark,
                   multiple_prices>>

\* lines 105-109: banner, historical = get_historical_prices(ticker, period='5d')
MainHistory ==
    /\ pc = "main_105"
    /\ stdout' = <<Banner("Historical Prices (Last 5 Days) for AAPL")>>
    /\ ticker' = MainTicker
    /\ period' = MainPeriod
    /\ stack' = <<"main_110">>
    /\ pc' = "ghp_36"
    /\ UNCHANGED <<data, info, ret, tickers, idx, prices, current_price,
                   requests, fetched, mark,
                   multiple_prices>>

\* lines 109-110
MainPrintHistory ==
    /\ pc = "main_110"
    /\ stdout' = stdout \o [i \in DOMAIN ret.value |-> RowLine(ret.value[i])]
    /\ pc' = "main_113"
    /\ ret' = NoRet
    /\ UNCHANGED <<stack, ticker, period, data, info, tickers, idx, prices,
                   current_price, requests, fetched, mark,
                   multiple_prices>>

\* lines 113-118: banner, multiple_prices = get_multiple_stocks(tickers)
MainBatch ==
    /\ pc = "main_113"
    /\ stdout' = <<Banner("Multiple Stocks")>>
    /\ tickers' = MainTickers
    /\ stack' = <<"main_120">>
    /\ pc' = "gms_75"
    /\ UNCHANGED <<ticker, period, data, info, ret, idx, prices, current_price,
                   requests, fetched, mark,
                   multiple_prices>>

\* lines 118-124: multiple_prices = ...; for ticker, price in multiple_prices.items(): ...
MainPrintBatch ==
    /\ pc = "main_120"
    /\ stdout' = stdout \o
          [i \in DOMAIN ret.value |-> PriceLine(ret.value[i].k, ret.value[i].v)]
    /\ pc' = "exit"
    /\ multiple_prices' = ret.value
    /\ ret' = NoRet
    /\ UNCHANGED <<stack, ticker, period, data, info, tickers, idx, prices,
                   current_price, requests, fetched, mark>>

-----------------------------------------------------------------------------
Next ==
    \/ CallGetCurrentPrice
    \/ CallGetHistoricalPrices
    \/ CallGetHistoricalPricesDefault
    \/ CallGetStockInfo
    \/ CallGetMultipleStocks
    \/ GcpRequest
    \/ GcpResult
    \/ GhpRequest
    \/ GhpResult
    \/ GsiRequest
    \/ GsiResult
    \/ GmsInit
    \/ GmsLoop
    \/ GmsStore
    \/ GmsResult
    \/ Return
    \/ ProviderTable
    \/ ProviderInfo
    \/ ProviderRaises
    \/ Propagate
    \/ MainPrice
    \/ MainPrintPrice
    \/ MainInfo
    \/ MainPrintInfo
    \/ MainHistory
    \/ MainPrintHistory
    \/ MainBatch
    \/ MainPrintBatch

Spec == Init /\ [][Next]_vars

-----------------------------------------------------------------------------
(* What the claims speak of. *)

\* the requests sent, and the prices computed, since get_multiple_stocks began
BatchRequests == SubSeq(requests, mark.req + 1, Len(requests))
BatchFetched == SubSeq(fetched, mark.fet + 1, Len(fetched))

\* get_multiple_stocks is running, in its own frame or in a fetch it called
InBatch ==
    \/ pc \in {"gms_76", "gms_78", "gms_79", "gms_ret"}
    \/ stack # <<>> /\ Head(stack) = "gms_78"

\* a fetch made by get_multiple_stocks failed
BatchFailed == pc \in {"exc", "raised"} /\ tickers # <<>>

NineKeys == <<"Symbol", "Company Name", "Current Price", "Previous Close", "Open",
              "Day High", "Day Low", "Volume", "Market Cap">>

\* the provider field behind each of the eight provider-backed keys
ProviderField(key) ==
    CASE key = "Company Name"   -> "longName"
      [] key = "Current Price"  -> "currentPrice"
      [] key = "Previous Close" -> "previousClose"
      [] key = "Open"           -> "open"
      [] key = "Day High"       -> "dayHigh"
      [] key = "Day Low"        -> "dayLow"
      [] key = "Volume"         -> "volume"
      [] key = "Market Cap"     -> "marketCap"

-----------------------------------------------------------------------------
\* C1: when get_multiple_stocks returns (no fetch failed), the result is a
\* mapping whose keys are exactly the distinct symbols of the input list,
\* each once, and the value under a key is a value get_current_price
\* computed for that symbol, unchanged.
C1_KeysAreTheDistinctSymbols ==
    pc = "gms_ret" =>
        /\ ret.kind = "prices"
        /\ Keys(ret.value) = {tickers[i] : i \in DOMAIN tickers}
        /\ Cardinality(Keys(ret.value)) = Len(ret.value)
        /\ \A j \in DOMAIN ret.value :
              \E i \in DOMAIN tickers :
                  /\ tickers[i] = ret.value[j].k
                  /\ ret.value[j].v = BatchFetched[i]

C1_Witness ==
    /\ pc = "gms_ret"
    /\ tickers = <<"AAPL", "GOOGL", "AAPL">>
    /\ BatchFetched = <<None, Some(10), None>>
    /\ Len(ret.value) = 2

\* C2: when get_multiple_stocks returns, the value under a symbol is the
\* price computed by the fetch for that symbol's last occurrence in the list.
C2_LastOccurrenceWins ==
    pc = "gms_ret" =>
        \A i \in DOMAIN tickers :
            (\A j \in DOMAIN tickers : j > i => tickers[j] # tickers[i])
                => Lookup(ret.value, tickers[i]) = BatchFetched[i]

C2_Witness ==
    /\ pc = "gms_ret"
    /\ tickers = <<"AAPL", "AAPL">>
    /\ BatchFetched = <<Some(10), Some(12)>>
    /\ ret.value = <<[k |-> "AAPL", v |-> Some(12)]>>

\* C3: while get_multiple_stocks runs, the requests it has caused are one
\* one-day history request per list element taken so far, in list order; at
\* most one fetch is unfinished, and a new one begins only when every earlier
\* one has returned; on return the list of length n has caused exactly n.
C3_OneFetchPerElementInOrder ==
    InBatch =>
        /\ Len(BatchRequests) = IF pc = "gcp_16" THEN idx - 1 ELSE idx
        /\ \A i \in DOMAIN BatchRequests :
              BatchRequests[i] = HistoryReq(tickers[i], "1d")
        /\ Len(BatchRequests) - Len(BatchFetched)
              = IF pc \in {"gcp_wait", "gcp_19", "exc"} THEN 1 ELSE 0
        /\ pc = "gms_ret" => Len(BatchRequests) = Len(tickers)

C3_Witness ==
    /\ pc = "gms_ret"
    /\ tickers = <<"GOOGL", "AAPL", "GOOGL">>
    /\ BatchRequests = <<HistoryReq("GOOGL", "1d"), HistoryReq("AAPL", "1d"),
                         HistoryReq("GOOGL", "1d")>>

\* C4: when the fetch for the element at position idx fails, no mapping is
\* handed back, the failed request is the last one sent (none for a later
\* element, none again for this one), and once the failure has reached the
\* caller nothing further runs.
C4_FailureAbortsTheBatch ==
    BatchFailed =>
        /\ ret.kind # "prices"
        /\ multiple_prices = <<>>
        /\ Len(BatchRequests) = idx
        /\ BatchRequests[idx] = HistoryReq(tickers[idx], "1d")
        /\ Len(BatchFetched) = idx - 1
        /\ pc = "raised" => stack = <<>> /\ ~ENABLED Next

C4_Witness ==
    /\ pc = "raised"
    /\ Len(tickers) = 3
    /\ idx = 2
    /\ prices = <<[k |-> tickers[1], v |-> Some(10)]>>
    /\ ret.kind = "none"

\* C5: get_multiple_stocks of the empty list returns the empty mapping and
\* has sent no request.
C5_EmptyListEmptyMapping ==
    (pc = "gms_ret" /\ tickers = <<>>) =>
        /\ ret.kind = "prices"
        /\ ret.value = <<>>
        /\ BatchRequests = <<>>

C5_Witness ==
    /\ pc = "gms_ret"
    /\ tickers = <<>>
    /\ requests = <<>>

\* C6: when the table the provider answered with is not empty,
\* get_current_price returns the Close of its last record, having sent one
\* history request, for its ticker and period '1d'.
C6_LastClose ==
    (pc = "gcp_ret" /\ data # <<>>) =>
        /\ ret.kind = "price"
        /\ ret.value = Some(data[Len(data)].Close)
        /\ requests[Len(requests)] = HistoryReq(ticker, "1d")
        /\ Len(requests) - mark.req = Len(fetched) - mark.fet

C6_Witness ==
    /\ pc = "gcp_ret"
    /\ Len(data) = 2
    /\ data[1].Close = 12
    /\ data[2].Close = 10
    /\ ret.value = Some(10)

\* C7: get_current_price returns None when the provider's table is empty,
\* without raising, and only then: a last Close of 0 is returned as 0.
C7_NoneOnlyForEmpty ==
    /\ (pc = "gcp_19" /\ data = <<>>) => ENABLED GcpResult
    /\ pc = "gcp_ret" =>
          /\ ret.kind = "price"
          /\ ret.value = None <=> data = <<>>
          /\ (data # <<>> /\ data[Len(data)].Close = 0) => ret.value = Some(0)

C7_Witness ==
    /\ pc = "gcp_ret"
    /\ data = <<>>
    /\ ret.value = None

\* C8: get_stock_info returns exactly the nine keys; 'Symbol' holds the
\* argument; each other key holds the provider's value of its field when the
\* bag has the field and 'N/A' when it has not.
C8_NineKeys ==
    pc = "gsi_ret" =>
        /\ ret.kind = "info"
        /\ KeySeq(ret.value) = NineKeys
        /\ ret.value[1].v = ticker
        /\ \A i \in 2..9 :
              LET f == ProviderField(ret.value[i].k)
              IN  ret.value[i].v = IF f \in DOMAIN info THEN info[f] ELSE "N/A"

C8_Witness ==
    /\ pc = "gsi_ret"
    /\ DOMAIN info = {"symbol", "longName", "volume"}
    /\ info["symbol"] = "val"
    /\ ret.value[1].v = "GOOGL"
    /\ ret.value[2].v = "val"
    /\ ret.value[5].v = "N/A"

\* C9: get_historical_prices sends one history request, carrying its ticker
\* and its period token as given (a token the provider does not know too),
\* and returns the table the provider answered with, unchanged.
C9_PassThrough ==
    pc = "ghp_ret" =>
        /\ ret.kind = "table"
        /\ ret.value = data
        /\ requests[Len(requests)] = HistoryReq(ticker, period)
        /\ stack = <<"api">> => Len(requests) = 1
        /\ stack = <<"main_110">> =>
              Len(requests) = 3 /\ requests[2] = InfoReq(MainTicker)

C9_Witness ==
    /\ pc = "ghp_ret"
    /\ period = "5d"
    /\ Len(ret.value) = 5
    /\ ret.value[1].Close = 12
    /\ ret.value[5].Close = 0

\* C10: the script prints 'Unable to fetch price' exactly when the price it
\* fetched is None, in the single-stock section and for every symbol of the
\* batch listing; a price of 0 is printed as a price.
C10_AbsentDistinctFromZero ==
    /\ pc = "main_96" =>
          (stdout[Len(stdout)].kind = "unable" <=> current_price = None)
    /\ pc = "exit" =>
          \A i \in DOMAIN multiple_prices :
              stdout[i + 1].kind = "unable" <=> multiple_prices[i].v = None

====
